---- MODULE Spec2Model ----
(***************************************************************************)
(* Model of the intent-to-query translation of TelBotRLTVideo:             *)
(*   app/services/nlp_service.py  QueryIntent, NLPService.parse_query,     *)
(*                                QueryBuilder.build_query and its two     *)
(*                                builders                                 *)
(*   app/bot.py                   handle_message                           *)
(*                                                                         *)
(* A query template is a sequence of tokens; a token is a record           *)
(* [kind, text] where kind is "kw" (text written literally in the source), *)
(* "id" (an identifier: table or column position) or "ph" (a placeholder   *)
(* :name).  Two templates are the same text iff they are the same          *)
(* sequence.  A Python dict is a sequence of entries in insertion order    *)
(* (filters) or a function from keys to values (params, time_range).  A    *)
(* local variable that is not bound yet is the empty sequence, a bound one *)
(* a one-element sequence.                                                 *)
(*                                                                         *)
(* handle_message keeps nothing between two messages and shares nothing    *)
(* with another running handler (parse_query, build_query and db.execute   *)
(* are plain calls between its two awaits), so messages are handled one    *)
(* after the other.  calls, executed, replies and sent record what the     *)
(* handler has done for the current message; seen is what logger.error     *)
(* has recorded so far.                                                    *)
(***************************************************************************)
EXTENDS Integers, Sequences, FiniteSets, TLC

VARIABLES pc, intent, compiled, exc, response, calls, executed, replies, sent, seen

vars == <<pc, intent, compiled, exc, response, calls, executed, replies, sent, seen>>

(***************************************************************************)
(* Bounds and input alphabets                                              *)
(***************************************************************************)
\* greatest number of entries of intent.filters that is enumerated
MaxFilters == 2

\* values the language model may put in QueryIntent.intent
Aggregations == {"count", "sum", "median"}

\* values the language model may put in QueryIntent.metric
Metrics == {"videos", "views", "likes", "shares"}

\* values bound to a filter key: one benign, one with SQL metacharacters
BenignValue == "123"
HostileValue == "1'; DROP TABLE videos; --"
FilterValues == {BenignValue, HostileValue}

\* entries the language model may put in QueryIntent.filters: a column with
\* either value, a key named like a time-range placeholder, a key that is SQL
FilterEntries ==
  {[key |-> "creator_id", value |-> BenignValue],
   [key |-> "creator_id", value |-> HostileValue],
   [key |-> "start_date", value |-> BenignValue],
   [key |-> "1=1; DROP TABLE videos; --", value |-> BenignValue]}

\* the bounds of a time range
Dates == {"2025-11-28"}

\* values of QueryIntent.group_by (the empty sequence is None)
GroupBys == {<<>>, <<"creator_id">>}

\* scalars the store may return
Scalars == {0, 7}

(***************************************************************************)
(* Tokens                                                                  *)
(***************************************************************************)
Kw(t) == [kind |-> "kw", text |-> t]
Id(t) == [kind |-> "id", text |-> t]
Ph(t) == [kind |-> "ph", text |-> t]

RECURSIVE Join(_)
\* ' AND '.join(where_clauses)
Join(clauses) ==
  IF clauses = <<>> THEN <<>>
  ELSE IF Len(clauses) = 1 THEN clauses[1]
  ELSE clauses[1] \o <<Kw("AND")>> \o Join(Tail(clauses))

\* params[key] = value on a dict
Put(params, key, value) ==
  [k \in (DOMAIN params) \cup {key} |-> IF k = key THEN value ELSE params[k]]

EmptyDict == [k \in {} |-> ""]

(***************************************************************************)
(* QueryIntent                                                             *)
(***************************************************************************)
\* time_range: None, or a dict that may hold 'start' and 'end'
TimeRanges ==
  {[isNone |-> TRUE, items |-> EmptyDict]} \cup
  {[isNone |-> FALSE, items |-> f] :
      f \in UNION {[S -> Dates] : S \in SUBSET {"start", "end"}}}

\* filters: dicts in insertion order, so sequences of entries with distinct keys
FilterDicts ==
  {fs \in UNION {[1..n -> FilterEntries] : n \in 0..MaxFilters} :
      \A i, j \in 1..Len(fs) : i # j => fs[i].key # fs[j].key}

QueryIntent ==
  [intent : Aggregations, metric : Metrics, time_range : TimeRanges,
   filters : FilterDicts, group_by : GroupBys]

(***************************************************************************)
(* QueryBuilder                                                            *)
(***************************************************************************)
\* FilterClause with the value written into the text: f"{key} = {value}"
FilterClauseInline(key, value) == <<Id(key), Kw("="), Kw(value)>>

\* the text the builders write for one filter entry: f"{key} = :{key}"
FilterClause(key, value) == <<Id(key), Kw("="), Ph(key)>>

\* "Handle time range": the clauses and parameters of the time range
TimeRangeStep(i) ==
  LET tr == i.time_range
      truthy == ~tr.isNone /\ DOMAIN tr.items # {}
      hasStart == truthy /\ "start" \in DOMAIN tr.items
      hasEnd == truthy /\ "end" \in DOMAIN tr.items
      c1 == IF hasStart THEN <<<<Id("created_at"), Kw(">="), Ph("start_date")>>>> ELSE <<>>
      p1 == IF hasStart THEN Put(EmptyDict, "start_date", tr.items["start"]) ELSE EmptyDict
      c2 == IF hasEnd THEN <<<<Id("created_at"), Kw("<="), Ph("end_date")>>>> ELSE <<>>
      p2 == IF hasEnd THEN Put(p1, "end_date", tr.items["end"]) ELSE p1
  IN [where_clauses |-> c1 \o c2, params |-> p2]

RECURSIVE FilterStep(_, _)
\* "Handle filters": for key, value in intent.filters.items()
FilterStep(acc, fs) ==
  IF fs = <<>> THEN acc
  ELSE FilterStep(
         [where_clauses |-> Append(acc.where_clauses, FilterClause(fs[1].key, fs[1].value)),
          params |-> Put(acc.params, fs[1].key, fs[1].value)],
         Tail(fs))

\* f"WHERE {' AND '.join(where_clauses)}" if where_clauses else ""
WhereClause(where_clauses) ==
  IF where_clauses # <<>> THEN <<Kw("WHERE")>> \o Join(where_clauses) ELSE <<>>

\* CountTarget with the two branches exchanged
CountTargetSwapped(metric) ==
  IF metric = "videos"
  THEN <<Kw("SELECT"), Kw("COUNT(DISTINCT"), Id("video_id"), Kw(")"), Kw("FROM"), Id("video_snapshots")>>
  ELSE <<Kw("SELECT"), Kw("COUNT(*)"), Kw("FROM"), Id("videos")>>

\* the SELECT ... FROM ... of a count query
CountTarget(metric) ==
  IF metric = "videos"
  THEN <<Kw("SELECT"), Kw("COUNT(*)"), Kw("FROM"), Id("videos")>>
  ELSE <<Kw("SELECT"), Kw("COUNT(DISTINCT"), Id("video_id"), Kw(")"), Kw("FROM"), Id("video_snapshots")>>

_build_count_query(i) ==
  LET acc == FilterStep(TimeRangeStep(i), i.filters)
  IN [query |-> CountTarget(i.metric) \o WhereClause(acc.where_clauses),
      params |-> acc.params]

\* the dict of metric columns and its .get(intent.metric, 'delta_views_count')
metric_column(metric) ==
  CASE metric = "views" -> "delta_views_count"
    [] metric = "likes" -> "delta_likes_count"
    [] metric = "comments" -> "delta_comments_count"
    [] metric = "reports" -> "delta_reports_count"
    [] OTHER -> "delta_views_count"

_build_sum_query(i) ==
  LET acc == FilterStep(TimeRangeStep(i), i.filters)
  IN [query |-> <<Kw("SELECT"), Kw("COALESCE(SUM("), Id(metric_column(i.metric)),
                  Kw("), 0)"), Kw("FROM"), Id("video_snapshots")>>
                \o WhereClause(acc.where_clauses),
      params |-> acc.params]

\* exceptions: the class and the text of the message the source gives it
ValueError(msg) == [cls |-> "ValueError", msg |-> msg]

SQLAlchemyError(msg) == [cls |-> "SQLAlchemyError", msg |-> msg]

\* the result of a call: raised is the exception (<<>> if none), value what is
\* returned (<<>> if the call raised)
build_query(i) ==
  IF i.intent = "count" THEN [raised |-> <<>>, value |-> <<_build_count_query(i)>>]
  ELSE IF i.intent = "sum" THEN [raised |-> <<>>, value |-> <<_build_sum_query(i)>>]
  ELSE [raised |-> <<ValueError("Unsupported query type")>>, value |-> <<>>]

(***************************************************************************)
(* handle_message                                                          *)
(***************************************************************************)
\* the two response texts of the handler (in Russian in the source)
GenericErrorText == "Error processing request"
ResultText == "Result"

Init ==
  /\ pc = "idle"
  /\ intent = <<>>
  /\ compiled = <<>>
  /\ exc = <<>>
  /\ response = <<>>
  /\ calls = <<>>
  /\ executed = 0
  /\ replies = 0
  /\ sent = <<>>
  /\ seen = {}

\* the dispatcher calls handle_message with a message: fresh locals
Receive ==
  /\ pc = "idle"
  /\ pc' = "typing"
  /\ intent' = <<>>
  /\ compiled' = <<>>
  /\ exc' = <<>>
  /\ response' = <<>>
  /\ calls' = <<>>
  /\ executed' = 0
  /\ replies' = 0
  /\ sent' = <<>>
  /\ UNCHANGED seen

\* an exception raised inside the try block
Raise(step, e) ==
  /\ exc' = <<e>>
  /\ pc' = "except"
  /\ calls' = Append(calls, [step |-> step, ok |-> FALSE])

Return(step, next) ==
  /\ pc' = next
  /\ calls' = Append(calls, [step |-> step, ok |-> TRUE])
  /\ UNCHANGED exc

\* await types.ChatActions.typing()
Typing ==
  /\ pc = "typing"
  /\ \/ Return("typing", "parse")
     \/ Raise("typing", [cls |-> "TelegramAPIError", msg |-> "chat action"])
  /\ UNCHANGED <<intent, compiled, response, executed, replies, sent, seen>>

\* intent = nlp_service.parse_query(message.text): the chain returns a
\* QueryIntent, or anything it raises is turned into a ValueError
Parse ==
  /\ pc = "parse"
  /\ \/ \E i \in QueryIntent : intent' = <<i>> /\ Return("parse", "build")
     \/ Raise("parse", ValueError("Could not process the question")) /\ UNCHANGED intent
  /\ UNCHANGED <<compiled, response, executed, replies, sent, seen>>

\* query, params = QueryBuilder.build_query(intent)
Build ==
  /\ pc = "build"
  /\ LET r == build_query(intent[1])
     IN IF r.raised # <<>>
        THEN Raise("build", r.raised[1]) /\ UNCHANGED compiled
        ELSE compiled' = r.value /\ Return("build", "execute")
  /\ UNCHANGED <<intent, response, executed, replies, sent, seen>>

\* Execute, but a failed statement is run again instead of raising
ExecuteRetry ==
  /\ pc = "execute"
  /\ \/ \E result \in Scalars :
          /\ executed' = executed + 1
          /\ response' = <<[text |-> ResultText, result |-> <<result>>]>>
          /\ Return("execute", "reply")
     \/ /\ Raise("execute", SQLAlchemyError("no session"))
        /\ UNCHANGED <<executed, response>>
     \/ /\ executed' = executed + 1
        /\ UNCHANGED <<pc, exc, calls, response>>
  /\ UNCHANGED <<intent, compiled, replies, sent, seen>>

\* db = next(get_db()); result = db.execute(text(query), params).scalar();
\* response = f"... {result}".  The session may fail to open (no query is
\* issued) or the statement may fail (one query was issued).
Execute ==
  /\ pc = "execute"
  /\ \/ \E result \in Scalars :
          /\ executed' = executed + 1
          /\ response' = <<[text |-> ResultText, result |-> <<result>>]>>
          /\ Return("execute", "reply")
     \/ /\ Raise("execute", SQLAlchemyError("no session"))
        /\ UNCHANGED <<executed, response>>
     \/ /\ executed' = executed + 1
        /\ Raise("execute", SQLAlchemyError("statement failed"))
        /\ UNCHANGED response
  /\ UNCHANGED <<intent, compiled, replies, sent, seen>>

\* logger.error(f"Error processing message: {e}", exc_info=True): the failures
\* of the three calls, by the call that raised and the class raised
Caught ==
  IF calls[Len(calls)].step \in {"parse", "build", "execute"}
  THEN seen \cup {[step |-> calls[Len(calls)].step, cls |-> exc[1].cls]}
  ELSE seen

\* except Exception as e: one response text for every exception
HandleException ==
  /\ pc = "except"
  /\ response' = <<[text |-> GenericErrorText, result |-> <<>>]>>
  /\ pc' = "reply"
  /\ seen' = Caught
  /\ UNCHANGED <<intent, compiled, exc, calls, executed, replies, sent>>

\* await message.reply(response), and the handler returns: its locals are gone.
\* sent is what the handler passed to reply; delivery is the transport's.
Reply ==
  /\ pc = "reply"
  /\ replies' = replies + 1
  /\ sent' = response
  /\ pc' = "idle"
  /\ intent' = <<>>
  /\ compiled' = <<>>
  /\ exc' = <<>>
  /\ response' = <<>>
  /\ UNCHANGED <<calls, executed, seen>>

Next == Receive \/ Typing \/ Parse \/ Build \/ Execute \/ HandleException \/ Reply

Spec == Init /\ [][Next]_vars

\* the handler is a coroutine that runs to its end once it is started
FairSpec == Spec /\ WF_vars(Typing \/ Parse \/ Build \/ Execute \/ HandleException \/ Reply)

(***************************************************************************)
(* The schema the queries run against (app/models.py)                      *)
(***************************************************************************)
Tables == {"videos", "video_snapshots"}

VideoColumns ==
  {"id", "creator_id", "video_created_at", "views_count", "likes_count",
   "comments_count", "reports_count", "created_at", "updated_at"}

VideoSnapshotColumns ==
  {"id", "video_id", "views_count", "likes_count", "comments_count",
   "reports_count", "delta_views_count", "delta_likes_count",
   "delta_comments_count", "delta_reports_count", "created_at", "updated_at"}

Columns == VideoColumns \cup VideoSnapshotColumns

\* the metrics the builders name: 'videos' and the keys of the metric dict
SumMetrics == {"views", "likes", "comments", "reports"}
RecognizedMetrics == {"videos"} \cup SumMetrics

(***************************************************************************)
(* Properties                                                              *)
(***************************************************************************)
Built == compiled # <<>>
I == intent[1]
Q == compiled[1].query
P == compiled[1].params
Called(step) == \E n \in 1..Len(calls) : calls[n].step = step
Succeeded(step) == \E n \in 1..Len(calls) : calls[n].step = step /\ calls[n].ok
Texts(q, kind) == {q[n].text : n \in {m \in 1..Len(q) : q[m].kind = kind}}
HasStart(i) == ~i.time_range.isNone /\ "start" \in DOMAIN i.time_range.items
HasEnd(i) == ~i.time_range.isNone /\ "end" \in DOMAIN i.time_range.items

\* C1: every identifier of a template that build_query returned is a table or
\* a column of the schema; no text of an unrecognized filter key is in it.
C1_IdentifiersFromVocabulary ==
  Built => Texts(Q, "id") \subseteq (Tables \cup Columns)

\* C2: changing the value bound to one filter key of the compiled intent (to a
\* benign value or to one with SQL metacharacters) leaves the template the same
\* and changes the parameter mapping at most at that key; no value is part of
\* the template.
C2_ValueOnlyInParams ==
  Built =>
    /\ \A n \in 1..Len(Q) : Q[n].text \notin FilterValues
    /\ \A n \in 1..Len(I.filters), v \in FilterValues :
         LET r == build_query([I EXCEPT !.filters[n].value = v])
         IN /\ r.raised = <<>>
            /\ r.value[1].query = Q
            /\ DOMAIN r.value[1].params = DOMAIN P
            /\ r.value[1].params[I.filters[n].key] = v
            /\ \A k \in DOMAIN P \ {I.filters[n].key} : r.value[1].params[k] = P[k]

C2_Witness ==
  /\ Built /\ pc = "reply" /\ Succeeded("execute")
  /\ \E n \in 1..Len(I.filters) :
       /\ I.filters[n].value = HostileValue
       /\ P[I.filters[n].key] = HostileValue

\* an intent with a filter key, a metric or a group-by key that the builders
\* have no entry for (they have none for any group-by key)
OutOfVocabulary(i) ==
  \/ \E n \in 1..Len(i.filters) : i.filters[n].key \notin Columns
  \/ i.metric \notin RecognizedMetrics
  \/ i.intent = "sum" /\ i.metric \notin SumMetrics
  \/ i.group_by # <<>>

\* C3: once build_query has been called with an intent that has a filter key,
\* a metric or a group-by key outside the static vocabulary, it has raised.
C3_UnknownKeyFails ==
  (intent # <<>> /\ Called("build") /\ OutOfVocabulary(I)) => ~Succeeded("build")

\* C4: once build_query has been called with an aggregation kind other than
\* count and sum, it has raised UnsupportedAggregationError, no template and no
\* parameter mapping is bound and no query was executed.
C4_UnsupportedAggregationError ==
  (intent # <<>> /\ Called("build") /\ I.intent \notin {"count", "sum"}) =>
    /\ exc # <<>> /\ exc[1].cls = "UnsupportedAggregationError"
    /\ compiled = <<>>
    /\ executed = 0

\* the orders in which n filter entries can be inserted
Orders(n) == {p \in [1..n -> 1..n] : \A a, b \in 1..n : a # b => p[a] # p[b]}

\* C5: build_query on the compiled intent gives the compiled template and
\* parameters again, and on the same intent with its filter entries inserted
\* in any other order it gives the same template.
C5_OrderStable ==
  Built =>
    /\ build_query(I).value = compiled
    /\ \A p \in Orders(Len(I.filters)) :
         build_query([I EXCEPT !.filters = [n \in 1..Len(I.filters) |-> I.filters[p[n]]]]
                    ).value[1].query = Q

\* the predicates of an intent: its time-range bounds and its filter entries
NumPredicates(i) ==
  (IF HasStart(i) THEN 1 ELSE 0) + (IF HasEnd(i) THEN 1 ELSE 0) + Len(i.filters)

\* C6: the keys of the parameter mapping are the placeholders of the template,
\* no placeholder is used twice, and there are as many parameters as
\* predicates.
C6_OneParameterPerPredicate ==
  Built =>
    /\ DOMAIN P = Texts(Q, "ph")
    /\ Cardinality({n \in 1..Len(Q) : Q[n].kind = "ph"}) = Cardinality(DOMAIN P)
    /\ Cardinality(DOMAIN P) = NumPredicates(I)

\* C7: a compiled count intent selects COUNT(*) FROM videos if its metric is
\* 'videos' and COUNT(DISTINCT video_id) FROM video_snapshots otherwise; with
\* no time-range bound and no filter the template is that selection alone and
\* the parameter mapping is empty.
C7_CountTarget ==
  (Built /\ I.intent = "count") =>
    LET videos == <<Kw("SELECT"), Kw("COUNT(*)"), Kw("FROM"), Id("videos")>>
        snapshots == <<Kw("SELECT"), Kw("COUNT(DISTINCT"), Id("video_id"), Kw(")"),
                       Kw("FROM"), Id("video_snapshots")>>
        target == IF I.metric = "videos" THEN videos ELSE snapshots
    IN /\ Len(Q) >= Len(target)
       /\ SubSeq(Q, 1, Len(target)) = target
       /\ (~HasStart(I) /\ ~HasEnd(I) /\ I.filters = <<>>) =>
            (Q = target /\ P = EmptyDict)

C7_Witness ==
  /\ Built /\ I.intent = "count" /\ pc = "reply"
  /\ I.metric = "likes" /\ I.filters = <<>> /\ I.time_range.isNone
  /\ Len(Q) = 6

\* C8: a compiled sum intent selects COALESCE(SUM(delta_<metric>_count), 0)
\* FROM video_snapshots, whatever its time range and filters.
C8_SumOfRequestedDelta ==
  (Built /\ I.intent = "sum") =>
    /\ Len(Q) >= 6
    /\ SubSeq(Q, 1, 6) =
         <<Kw("SELECT"), Kw("COALESCE(SUM("), Id("delta_" \o I.metric \o "_count"),
           Kw("), 0)"), Kw("FROM"), Id("video_snapshots")>>

\* C9: two failures that handle_message caught from different steps (parsing,
\* compilation, execution) have different error kinds.
C9_DistinctErrorKinds ==
  \A a, b \in seen :
    (a.step # b.step /\ {a.step, b.step} \subseteq {"parse", "build", "execute"})
      => a.cls # b.cls

Order == <<"typing", "parse", "build", "execute">>

AllSucceeded == Len(calls) = 4 /\ calls[4].ok

C10_Safety ==
  /\ Len(calls) <= 4
  /\ \A n \in 1..Len(calls) : calls[n].step = Order[n]
  /\ \A n \in 1..(Len(calls) - 1) : calls[n].ok
  /\ executed <= 1
  /\ executed = 1 => (Succeeded("parse") /\ Succeeded("build") /\ Called("execute"))
  /\ replies <= 1
  /\ replies = 1 =>
       /\ pc = "idle"
       /\ sent # <<>>
       /\ sent[1].text = IF AllSucceeded THEN ResultText ELSE GenericErrorText

TypeOK ==
  /\ pc \in {"idle", "typing", "parse", "build", "execute", "except", "reply"}
  /\ Len(intent) <= 1 /\ Len(compiled) <= 1 /\ Len(exc) <= 1 /\ Len(response) <= 1
  /\ Len(sent) <= 1
  /\ executed \in 0..1 /\ replies \in 0..1
====
